---- MODULE Spec2Model ----
(***************************************************************************)
(* A model of the reminder engine of DynamicDo_Flask:                      *)
(*   app/services/reminder_service.py  (ReminderService)                   *)
(*   app/services/ai_client.py         (AiClient.rank_tasks)               *)
(*   app/api/reminder.py               (the /rank handler)                 *)
(*                                                                         *)
(* Conventions.  A Python dict key that is missing is the value Absent, a  *)
(* None/null value is Null.  A rank is a record [k, v]: k is "abs" (no     *)
(* key), "null" (None) or "num", and v is the number in tenths (9 is 0.9). *)
(* An ObjectId is modelled by its canonical lower-case hex string, here    *)
(* two characters long; str(ObjectId(s)) is therefore Canon[s].            *)
(* A handler runs as one step.  datetime.utcnow() is read once per call:   *)
(* every call that writes a timestamp advances the clock by one, so the    *)
(* per-item readings of save_ranking_results carry the same value.         *)
(* SpecConcurrent and SpecRankSteps serve a request in several steps, one  *)
(* per store or provider call.  The store does not fail, except in         *)
(* SpecSave, where an update_one of save_ranking_results can raise.        *)
(***************************************************************************)
EXTENDS Integers, Sequences, FiniteSets, TLC

VARIABLES
    reminders,   \* reminders_collection: the documents, in natural order
    inserted,    \* how many _id values the store has generated so far
    clock,       \* the last reading of datetime.utcnow()
    before,      \* reminders_collection when the current call started
    resp,        \* the call being answered, with its result ([op |-> "idle"] if none)
    prev,        \* the answered call a client is about to repeat ([op |-> "idle"] if none)
    procs        \* the requests that are served step by step, one record each

vars == <<reminders, inserted, clock, before, resp, prev, procs>>

----------------------------------------------------------------------------
\* Bounds of the model.
MaxDocs == 2       \* documents ever inserted
MaxClock == 3      \* readings of the clock
MaxTail == 1       \* ids of a batch beyond the cap
MaxItems == 2      \* items of a provider response

\* Constants of the program.
Cap == 10          \* data[:10], data[10:]
DefaultRank == 5   \* 0.5, in tenths
NoRankKey == 10    \* -r.get("rank", -1) for a reminder without rank: 1, in tenths

Absent == "ABSENT"
Null == "NULL"

Users == {"u1", "u2"}

\* The ids the store generates, in order of generation.
IdPool == <<"aa", "bb", "cc", "dd">>

\* bson.ObjectId(s) accepts hex in either case and str() prints lower case.
\* Any string outside DOMAIN Canon is not hex and ObjectId(s) raises.
Canon == [s \in {"aa", "bb", "cc", "dd", "ff", "AA", "BB"} |->
            CASE s = "AA" -> "aa"
              [] s = "BB" -> "bb"
              [] OTHER -> s]

IsObjectId(rid) == rid \in DOMAIN Canon
ObjectId(rid) == Canon[rid]

AbsRank == [k |-> "abs", v |-> 0]
NullRank == [k |-> "null", v |-> 0]
Num(n) == [k |-> "num", v |-> n]

SeqsUpTo(S, n) == UNION {[1..k -> S] : k \in 0..n}

Range(s) == {s[i] : i \in DOMAIN s}

\* [x for x in s if x in keep]: the kept elements, in the order of s.
SelectList(s, keep) ==
    LET upto[i \in 0..Len(s)] ==
            IF i = 0 THEN <<>>
            ELSE IF s[i] \in keep THEN Append(upto[i - 1], s[i]) ELSE upto[i - 1]
    IN upto[Len(s)]

\* How many times x occurs in s.
Count(s, x) == Cardinality({i \in DOMAIN s : s[i] = x})

----------------------------------------------------------------------------
\* The store.

\* reminders_collection.find(filter): the documents of coll that match (the
\* set matching), in natural order.
Find(coll, matching) == SelectList(coll, matching)

\* reminders_collection.delete_many({"_id": {"$in": ids}})
\* A bulk delete that removes one document only.
DeleteOne(coll, ids) ==
    LET hits == {i \in DOMAIN coll : coll[i]._id \in ids}
    IN IF hits = {} THEN coll
       ELSE LET first == CHOOSE i \in hits : \A j \in hits : i <= j
            IN SubSeq(coll, 1, first - 1) \o SubSeq(coll, first + 1, Len(coll))

DeleteMany(coll, ids) == SelectList(coll, {d \in Range(coll) : d._id \notin ids})

\* reminders_collection.update_many({"_id": {"$in": ids}},
\*     {"$set": {"completed": completed, "updated_at": now}})
\* A bulk update that inverts the flag of every matched document.
UpdateManyInverting(coll, ids, completed, now) ==
    [i \in DOMAIN coll |->
        IF coll[i]._id \in ids
        THEN [coll[i] EXCEPT !.completed = ~@, !.updated_at = now]
        ELSE coll[i]]

UpdateMany(coll, ids, completed, now) ==
    [i \in DOMAIN coll |->
        IF coll[i]._id \in ids
        THEN [coll[i] EXCEPT !.completed = completed, !.updated_at = now]
        ELSE coll[i]]

Idle == [op |-> "idle"]

\* The requests served step by step, and the record of one that is not running.
Procs == {1, 2}
IdleProc == [pc |-> "idle"]

Init ==
    /\ reminders = <<>>
    /\ inserted = 0
    /\ clock = 0
    /\ before = <<>>
    /\ resp = Idle
    /\ prev = Idle
    /\ procs = [p \in Procs |-> IdleProc]

----------------------------------------------------------------------------
\* create_reminder.  A title is a sequence of characters; " " is whitespace.

RECURSIVE LStrip(_)
LStrip(s) == IF s # <<>> /\ Head(s) = " " THEN LStrip(Tail(s)) ELSE s

RECURSIVE RStrip(_)
RStrip(s) ==
    IF s # <<>> /\ s[Len(s)] = " " THEN RStrip(SubSeq(s, 1, Len(s) - 1)) ELSE s

Strip(s) == RStrip(LStrip(s))

\* The request bodies of create: the title key missing, null, or a string.
\* They carry none of the other optional keys but "priority".
CreateBodies ==
    {[title |-> [k |-> "missing", v |-> <<>>], priority |-> Null],
     [title |-> [k |-> "null", v |-> <<>>], priority |-> Null],
     [title |-> [k |-> "str", v |-> <<>>], priority |-> Null],
     [title |-> [k |-> "str", v |-> <<" ">>], priority |-> "low"],
     [title |-> [k |-> "str", v |-> <<" ", "a">>], priority |-> "low"]}

\* data.get("title", "") is None for a null title, and None has no strip.
CreateTitleRaises(data) == data.title.k = "null"

\* data.get("title", "").strip()
CreateTitle(data) == Strip(IF data.title.k = "missing" THEN <<>> ELSE data.title.v)

NewReminder(user_id, data, oid, now) ==
    [_id |-> oid,
     title |-> CreateTitle(data),
     notes |-> Null,
     url |-> Null,
     date |-> Null,
     time |-> Null,
     priority |-> data.priority,
     list |-> Null,
     tag |-> Null,
     user_id |-> user_id,
     completed |-> FALSE,
     rank |-> AbsRank,
     ai_priority |-> Absent,
     created_at |-> now,
     updated_at |-> now]

\* The answer of POST /: 201, 400 for a ValueError, 500 for any other
\* exception, which the handler does not catch.
CreateResult(user_id, data, error, status) ==
    [op |-> "create", user |-> user_id, data |-> data, error |-> error,
     status |-> status]

create_reminder(user_id, data) ==
    /\ resp.op = "idle"
    /\ before' = reminders
    /\ IF CreateTitleRaises(data)
       THEN /\ resp' = CreateResult(user_id, data, "AttributeError", 500)
            /\ UNCHANGED <<reminders, inserted, clock>>
       ELSE IF CreateTitle(data) = <<>>
       THEN /\ resp' = CreateResult(user_id, data, "ValueError", 400)
            /\ UNCHANGED <<reminders, inserted, clock>>
       ELSE /\ inserted < MaxDocs
            /\ clock < MaxClock
            /\ clock' = clock + 1
            /\ inserted' = inserted + 1
            /\ reminders' = Append(reminders,
                   NewReminder(user_id, data, IdPool[inserted + 1], clock + 1))
            /\ resp' = CreateResult(user_id, data, "none", 201)

----------------------------------------------------------------------------
\* delete_reminders and toggle_reminder_completion.

\* The id strings a batch request may carry: ids the store generates, one of
\* them in upper case, and a string that is no ObjectId.
InputIds == {"aa", "bb", "AA", "zz"}
TailIds == {"bb", "zz"}
FillId == "ff"
Fill(k) == [i \in 1..k |-> FillId]

\* The batches: at most one id, or Cap ids and more, whose first and whose
\* Cap-th id vary, followed by a tail beyond the cap.
BatchInputs ==
    SeqsUpTo(InputIds, 1) \cup
    {<<h>> \o Fill(Cap - 2) \o <<e>> \o t :
        h \in InputIds, e \in InputIds, t \in SeqsUpTo(TailIds, MaxTail)}

\* A batch without the cap.
ProcessedWhole(data) == data

\* data[:10]
Processed(data) == SubSeq(data, 1, IF Len(data) < Cap THEN Len(data) ELSE Cap)
\* data[10:]
Ignored(data) == SubSeq(data, Cap + 1, Len(data))

\* The try/except loop over ids_to_process.
ValidIds(ids) ==
    LET parsed == SelectList(ids, {rid \in Range(ids) : IsObjectId(rid)})
    IN [i \in DOMAIN parsed |-> ObjectId(parsed[i])]
InvalidIds(ids) == SelectList(ids, {rid \in Range(ids) : ~IsObjectId(rid)})

\* The lookup without the owner in its filter.
ExistingOfAnyOwner(coll, user_id, valid_ids) ==
    Find(coll, {d \in Range(coll) : d._id \in Range(valid_ids)})

\* find({"_id": {"$in": valid_ids}, "user_id": user_id}, {"_id": 1})
Existing(coll, user_id, valid_ids) ==
    Find(coll, {d \in Range(coll) : d._id \in Range(valid_ids) /\ d.user_id = user_id})

\* [str(r["_id"]) for r in existing]
FoundIds(existing) == [i \in DOMAIN existing |-> existing[i]._id]

\* [rid for rid in ids_to_process if rid not in found_ids]
NotFound(ids, found_ids) ==
    SelectList(ids, {rid \in Range(ids) : rid \notin Range(found_ids)})

BatchResult(op, user_id, data, completed, found_ids) ==
    [op |-> op, user |-> user_id, data |-> data, completed |-> completed,
     error |-> "none",
     found |-> found_ids,
     not_found |-> NotFound(Processed(data), found_ids) \o InvalidIds(Processed(data)),
     ignored |-> Ignored(data)]

BatchError(op, user_id, data, completed) ==
    [op |-> op, user |-> user_id, data |-> data, completed |-> completed,
     error |-> "ValueError", found |-> <<>>, not_found |-> <<>>, ignored |-> <<>>]

delete_reminders(user_id, data) ==
    /\ resp.op = "idle"
    /\ before' = reminders
    /\ UNCHANGED <<inserted, clock>>
    /\ IF data = <<>>
       THEN /\ resp' = BatchError("delete", user_id, data, FALSE)
            /\ UNCHANGED reminders
       ELSE LET existing == Existing(reminders, user_id, ValidIds(Processed(data)))
            IN /\ reminders' = DeleteMany(reminders, {d._id : d \in Range(existing)})
               /\ resp' = BatchResult("delete", user_id, data, FALSE, FoundIds(existing))

toggle_reminder_completion(user_id, data, completed) ==
    /\ resp.op = "idle"
    /\ before' = reminders
    /\ UNCHANGED inserted
    /\ IF data = <<>>
       THEN /\ resp' = BatchError("toggle", user_id, data, completed)
            /\ UNCHANGED <<reminders, clock>>
       ELSE LET existing == Existing(reminders, user_id, ValidIds(Processed(data)))
                ids == {d._id : d \in Range(existing)}
            IN /\ IF existing # <<>>
                  THEN /\ clock < MaxClock
                       /\ clock' = clock + 1
                       /\ reminders' = UpdateMany(reminders, ids, completed, clock + 1)
                  ELSE UNCHANGED <<reminders, clock>>
               /\ resp' = BatchResult("toggle", user_id, data, completed, FoundIds(existing))

----------------------------------------------------------------------------
\* Sorting.  list.sort is stable: elements with equal keys keep their order.
\* The element at index i lands behind every element that sorts before it and
\* behind every earlier element with an equal key.
\* less holds the pairs <<i, j>> of indices for which s[i] sorts before s[j].
StableSort(s, less) ==
    LET Pos(i) == 1 + Cardinality({j \in DOMAIN s :
                        \/ <<j, i>> \in less
                        \/ (<<i, j>> \notin less /\ j < i)})
    IN [k \in DOMAIN s |-> s[CHOOSE i \in DOMAIN s : Pos(i) = k]]

\* What the API returns for a document: "id" is str(_id), "_id" is removed.
\* "reasoning" is a key only rank_tasks adds.
AsReminder(d) ==
    [id |-> d._id, title |-> d.title, notes |-> d.notes, url |-> d.url,
     date |-> d.date, time |-> d.time, priority |-> d.priority, list |-> d.list,
     tag |-> d.tag, user_id |-> d.user_id,
     completed |-> d.completed, rank |-> d.rank, ai_priority |-> d.ai_priority,
     created_at |-> d.created_at, updated_at |-> d.updated_at, reasoning |-> Absent]

\* -r.get("rank", -1)
ListRankKey(r) == IF r.rank.k = "abs" THEN NoRankKey ELSE 0 - r.rank.v

\* The tuple (completed, -rank) of a is smaller than that of b; False < True.
ListKeyLess(a, b) ==
    \/ (~a.completed /\ b.completed)
    \/ (a.completed = b.completed /\ ListRankKey(a) < ListRankKey(b))

ListResult(coll, user_id) ==
    LET found == Find(coll, {d \in Range(coll) : d.user_id = user_id})
        rs == [i \in DOMAIN found |-> AsReminder(found[i])]
    IN StableSort(rs, {p \in (DOMAIN rs) \X (DOMAIN rs) : ListKeyLess(rs[p[1]], rs[p[2]])})

list_reminders(user_id) ==
    /\ resp.op = "idle"
    /\ before' = reminders
    /\ resp' = [op |-> "list", user |-> user_id, reminders |-> ListResult(reminders, user_id)]
    /\ UNCHANGED <<reminders, inserted, clock>>

\* find({"user_id": user_id, "completed": False})
list_uncompleted_reminders(coll, user_id) ==
    LET found == Find(coll, {d \in Range(coll) : d.user_id = user_id /\ ~d.completed})
    IN [i \in DOMAIN found |-> AsReminder(found[i])]

----------------------------------------------------------------------------
\* get_reminder_by_id and update_reminder.  A patch is a function from the
\* keys the request body carries to their values; a key the body lacks is
\* not in its domain.

\* allowed_fields with the owner among them.
AllowedFieldsAndOwner ==
    {"title", "notes", "url", "date", "time", "priority", "list", "tag", "user_id"}

AllowedFields == {"title", "notes", "url", "date", "time", "priority", "list", "tag"}

NoKeys == [f \in {} |-> Null]
StrTitle(v) == [k |-> "str", v |-> v]
NullTitle == [k |-> "null", v |-> <<>>]

UpdatePatches ==
    {NoKeys,
     [title |-> StrTitle(<<" ", "b">>)],
     [title |-> StrTitle(<<" ">>)],
     [title |-> StrTitle(<<>>)],
     [title |-> NullTitle],
     [title |-> NullTitle, notes |-> "n"],
     [tag |-> "work"],
     [notes |-> "n", priority |-> Null],
     [completed |-> TRUE, user_id |-> "u2", rank |-> Num(15)],
     [title |-> StrTitle(<<"b">>), completed |-> TRUE, user_id |-> "u2"]}

\* data["title"].strip() if data["title"] else ""
UpdateTitle(data) == IF data.title.k = "null" THEN <<>> ELSE Strip(data.title.v)

\* An update that takes any title.
UpdateTitleUnchecked(data) == FALSE

\* The title of the patch is empty after stripping.
UpdateTitleEmpty(data) == "title" \in DOMAIN data /\ UpdateTitle(data) = <<>>

\* update_fields, before updated_at is added.
UpdateFields(data) ==
    [f \in AllowedFields \cap DOMAIN data |->
        IF f = "title" THEN UpdateTitle(data) ELSE data[f]]

\* {"$set": update_fields} applied to one document.
SetFields(d, update_fields, now) ==
    [f \in DOMAIN d |->
        IF f = "updated_at" THEN now
        ELSE IF f \in DOMAIN update_fields THEN update_fields[f]
        ELSE d[f]]

\* The first document with this _id, whoever owns it.
FindOneOfAnyOwner(coll, obj_id, user_id) ==
    LET hits == {i \in DOMAIN coll : coll[i]._id = obj_id}
    IN IF hits = {} THEN 0 ELSE CHOOSE i \in hits : \A j \in hits : i <= j

\* The index of the first document that {"_id": obj_id, "user_id": user_id}
\* matches, 0 if there is none.
FindOne(coll, obj_id, user_id) ==
    LET hits == {i \in DOMAIN coll :
                    coll[i]._id = obj_id /\ coll[i].user_id = user_id}
    IN IF hits = {} THEN 0 ELSE CHOOSE i \in hits : \A j \in hits : i <= j

\* The answer of GET and PATCH /<reminder_id>: reminders holds the returned
\* reminder, or nothing when the call failed.
OneResult(op, user_id, reminder_id, data, error, out) ==
    [op |-> op, user |-> user_id, id |-> reminder_id, data |-> data,
     error |-> error, reminders |-> out]

update_reminder(user_id, reminder_id, data) ==
    /\ resp.op = "idle"
    /\ before' = reminders
    /\ UNCHANGED inserted
    /\ IF \/ ~IsObjectId(reminder_id)
          \/ UpdateTitleEmpty(data)
          \/ DOMAIN UpdateFields(data) = {}
       THEN /\ resp' = OneResult("update", user_id, reminder_id, data, "ValueError", <<>>)
            /\ UNCHANGED <<reminders, clock>>
       ELSE LET i == FindOne(reminders, ObjectId(reminder_id), user_id)
                result == SetFields(reminders[i], UpdateFields(data), clock + 1)
            IN IF i = 0
               THEN /\ resp' = OneResult("update", user_id, reminder_id, data,
                                         "ValueError", <<>>)
                    /\ UNCHANGED <<reminders, clock>>
               ELSE /\ clock < MaxClock
                    /\ clock' = clock + 1
                    /\ reminders' = [reminders EXCEPT ![i] = result]
                    /\ resp' = OneResult("update", user_id, reminder_id, data,
                                         "none", <<AsReminder(result)>>)

get_reminder_by_id(user_id, reminder_id) ==
    /\ resp.op = "idle"
    /\ before' = reminders
    /\ UNCHANGED <<reminders, inserted, clock>>
    /\ LET i == IF IsObjectId(reminder_id)
                THEN FindOne(reminders, ObjectId(reminder_id), user_id) ELSE 0
       IN resp' = IF i = 0
                  THEN OneResult("get", user_id, reminder_id, NoKeys, "ValueError", <<>>)
                  ELSE OneResult("get", user_id, reminder_id, NoKeys, "none",
                                 <<AsReminder(reminders[i])>>)

----------------------------------------------------------------------------
\* AiClient.rank_tasks.  What the provider call produced is a record
\* [kind, items]:
\*   "raise"     the API call raised
\*   "empty"     the message content is empty
\*   "garbage"   json.loads raised
\*   "object"    a JSON object {"tasks": items}
\*   "no_tasks"  a JSON object without the key "tasks"
\*   "array"     the JSON array items
\* An item is [id, rank, priority, reasoning].

FailKinds == {"raise", "empty", "garbage"}
RespRanks == {AbsRank, NullRank, Num(-20), Num(9)}
RespPriorities == {Absent, "high"}
UnknownId == "ff"

ItemsFor(ids) ==
    {[id |-> i, rank |-> r, priority |-> p,
      reasoning |-> IF p = Absent THEN Absent ELSE "because"] :
        i \in ids, r \in RespRanks, p \in RespPriorities}

Responses(ids, n) ==
    {[kind |-> k, items |-> <<>>] : k \in FailKinds \cup {"no_tasks"}} \cup
    {[kind |-> k, items |-> it] : k \in {"object", "array"}, it \in SeqsUpTo(ItemsFor(ids), n)}

\* An except branch that returns the tasks as they came.
FallbackAsIs(tasks, debug) == tasks

\* The except branch: every task with rank 0.5 and priority "medium".
Fallback(tasks, debug) ==
    [i \in DOMAIN tasks |->
        [tasks[i] EXCEPT !.rank = Num(DefaultRank),
                         !.priority = "medium",
                         !.reasoning = IF debug THEN "AI ranking unavailable" ELSE @]]

\* result.get("tasks", result if isinstance(result, list) else []): a list has
\* no attribute get, so this raises for an array.
AiRankedRaises(response) == response.kind = "array"
AiRanked(response) == IF response.kind = "object" THEN response.items ELSE <<>>

\* ai_map = {item["id"]: item for item in ai_ranked if "id" in item}: a later
\* item replaces an earlier one with the same id.
InAiMap(ai_ranked, task_id) == \E i \in DOMAIN ai_ranked : ai_ranked[i].id = task_id
AiMap(ai_ranked, task_id) ==
    ai_ranked[CHOOSE i \in DOMAIN ai_ranked :
                /\ ai_ranked[i].id = task_id
                /\ \A j \in DOMAIN ai_ranked : ai_ranked[j].id = task_id => j <= i]

\* One task of final_tasks.
MergeTask(task, ai_ranked, debug) ==
    IF InAiMap(ai_ranked, task.id)
    THEN LET ai_data == AiMap(ai_ranked, task.id)
         IN [task EXCEPT
               !.rank = IF ai_data.rank.k = "abs" THEN Num(DefaultRank) ELSE ai_data.rank,
               !.priority = IF ai_data.priority = Absent THEN "medium" ELSE ai_data.priority,
               !.reasoning = IF debug /\ ai_data.reasoning # Absent
                             THEN ai_data.reasoning ELSE @]
    ELSE [task EXCEPT !.rank = Num(DefaultRank), !.priority = "medium"]

FinalTasks(tasks, ai_ranked, debug) ==
    [i \in DOMAIN tasks |-> MergeTask(tasks[i], ai_ranked, debug)]

\* final_tasks.sort(key=rank, reverse=True) compares the ranks of two or more
\* tasks; None does not compare and the sort raises TypeError.
SortRaises(final_tasks) ==
    Len(final_tasks) >= 2 /\ \E i \in DOMAIN final_tasks : final_tasks[i].rank.k # "num"

RankGreater(a, b) == a.rank.k = "num" /\ b.rank.k = "num" /\ a.rank.v > b.rank.v

\* final_tasks left in the order of the input.
SortByRankSkipped(final_tasks) == final_tasks

SortByRank(final_tasks) ==
    StableSort(final_tasks,
               {p \in (DOMAIN final_tasks) \X (DOMAIN final_tasks) :
                    RankGreater(final_tasks[p[1]], final_tasks[p[2]])})

\* The result: raised is whether an exception leaves rank_tasks.
rank_tasks(tasks, response, debug) ==
    IF tasks = <<>> THEN [raised |-> FALSE, out |-> <<>>]
    ELSE IF response.kind \in FailKinds \/ AiRankedRaises(response)
    THEN [raised |-> FALSE, out |-> Fallback(tasks, debug)]
    ELSE LET final_tasks == FinalTasks(tasks, AiRanked(response), debug)
         IN IF SortRaises(final_tasks)
            THEN [raised |-> FALSE, out |-> Fallback(tasks, debug)]
            ELSE [raised |-> FALSE, out |-> SortByRank(final_tasks)]

----------------------------------------------------------------------------
\* save_ranking_results: one update_one per item, in order.  acc is
\* [coll, updated, errors]; now is the reading of the clock the updates carry;
\* fails tells that the store raises on the update of this item.

\* An item that counts as updated as soon as it reaches the store.
SaveOneCountingCalls(acc, user_id, reminder, now, fails) ==
    IF reminder.id = Absent \/ reminder.rank.k # "num" THEN acc
    ELSE IF ~IsObjectId(reminder.id) \/ fails
    THEN [acc EXCEPT !.errors = Append(@, reminder.id)]
    ELSE [acc EXCEPT !.coll = [i \in DOMAIN @ |->
                                 IF @[i]._id = ObjectId(reminder.id) /\ @[i].user_id = user_id
                                 THEN [@[i] EXCEPT !.rank = reminder.rank,
                                                   !.ai_priority =
                                                       IF reminder.ai_priority = Absent
                                                       THEN Null ELSE reminder.ai_priority,
                                                   !.updated_at = now]
                                 ELSE @[i]],
                     !.updated = @ + 1]

SaveOne(acc, user_id, reminder, now, fails) ==
    IF reminder.id = Absent \/ reminder.rank.k # "num" THEN acc
    ELSE IF ~IsObjectId(reminder.id) \/ fails
    THEN [acc EXCEPT !.errors = Append(@, reminder.id)]
    ELSE LET obj_id == ObjectId(reminder.id)
             ai_priority == IF reminder.ai_priority = Absent THEN Null
                            ELSE reminder.ai_priority
             Match(d) == d._id = obj_id /\ d.user_id = user_id
             Set(d) == [d EXCEPT !.rank = reminder.rank,
                                 !.ai_priority = ai_priority,
                                 !.updated_at = now]
             modified == \E i \in DOMAIN acc.coll :
                            Match(acc.coll[i]) /\ Set(acc.coll[i]) # acc.coll[i]
         IN [acc EXCEPT !.coll = [i \in DOMAIN @ |->
                                    IF Match(@[i]) THEN Set(@[i]) ELSE @[i]],
                        !.updated = IF modified THEN @ + 1 ELSE @]

\* failing holds the positions of the items on which the store raises.
RECURSIVE SaveFrom(_, _, _, _, _, _)
SaveFrom(acc, user_id, ranked_reminders, i, now, failing) ==
    IF i > Len(ranked_reminders) THEN acc
    ELSE SaveFrom(SaveOne(acc, user_id, ranked_reminders[i], now, i \in failing),
                  user_id, ranked_reminders, i + 1, now, failing)

\* A save that writes nothing.
save_nothing(coll, user_id, ranked_reminders, now, failing) ==
    [coll |-> coll, updated |-> 0, errors |-> <<>>, raised |-> FALSE]

\* raised is whether the ValueError for an empty list leaves the function.
save_ranking_results(coll, user_id, ranked_reminders, now, failing) ==
    IF ranked_reminders = <<>>
    THEN [coll |-> coll, updated |-> 0, errors |-> <<>>, raised |-> TRUE]
    ELSE LET acc == SaveFrom([coll |-> coll, updated |-> 0, errors |-> <<>>],
                             user_id, ranked_reminders, 1, now, failing)
         IN [coll |-> acc.coll, updated |-> acc.updated, errors |-> acc.errors,
             raised |-> FALSE]

\* POST /rank.
rank_reminders(user_id, response, debug) ==
    /\ resp.op = "idle"
    /\ before' = reminders
    /\ UNCHANGED inserted
    /\ LET uncompleted_reminders == list_uncompleted_reminders(reminders, user_id)
           ranked == rank_tasks(uncompleted_reminders, response, debug)
           save_result == save_ranking_results(reminders, user_id, ranked.out,
                                              clock + 1, {})
           answer(status, called, out, saved) ==
               [op |-> "rank", user |-> user_id, response |-> response, debug |-> debug,
                tasks |-> uncompleted_reminders, status |-> status, called |-> called,
                reminders |-> out, count |-> Len(out), saved |-> saved]
       IN IF uncompleted_reminders = <<>>
          THEN /\ resp' = answer(200, FALSE, <<>>, 0)
               /\ UNCHANGED <<reminders, clock>>
          ELSE IF ranked.raised
          THEN /\ resp' = answer(500, TRUE, <<>>, 0)
               /\ UNCHANGED <<reminders, clock>>
          ELSE /\ clock < MaxClock
               /\ clock' = clock + 1
               /\ reminders' = save_result.coll
               /\ resp' = answer(200, TRUE, ranked.out, save_result.updated)

----------------------------------------------------------------------------
\* The response is handed to the client; the next request can be served.
Respond ==
    /\ resp.op # "idle"
    /\ resp' = Idle
    /\ before' = <<>>
    /\ UNCHANGED <<reminders, inserted, clock, prev, procs>>

CreateStep ==
    /\ \E u \in Users, data \in CreateBodies : create_reminder(u, data)
    /\ UNCHANGED <<prev, procs>>

DeleteStep ==
    /\ \E u \in Users, data \in BatchInputs : delete_reminders(u, data)
    /\ UNCHANGED <<prev, procs>>

ToggleStep ==
    /\ \E u \in Users, data \in BatchInputs, c \in BOOLEAN :
          toggle_reminder_completion(u, data, c)
    /\ UNCHANGED <<prev, procs>>

\* Batches below the cap: at most one id, or the two ids the store generates
\* first.
ShortInputs == SeqsUpTo(InputIds, 1) \cup {<<"aa", "bb">>}

DeleteShortStep ==
    /\ \E u \in Users, data \in ShortInputs : delete_reminders(u, data)
    /\ UNCHANGED <<prev, procs>>

ToggleShortStep ==
    /\ \E u \in Users, data \in ShortInputs, c \in BOOLEAN :
          toggle_reminder_completion(u, data, c)
    /\ UNCHANGED <<prev, procs>>

ListStep ==
    /\ \E u \in Users : list_reminders(u)
    /\ UNCHANGED <<prev, procs>>

UpdateStep ==
    /\ \E u \in Users, rid \in InputIds, data \in UpdatePatches :
          update_reminder(u, rid, data)
    /\ UNCHANGED <<prev, procs>>

\* Patches with a key of the allow-list, with keys outside it, and with both.
FewPatches ==
    {[tag |-> "work"],
     [completed |-> TRUE, user_id |-> "u2", rank |-> Num(15)],
     [title |-> StrTitle(<<"b">>), completed |-> TRUE, user_id |-> "u2"]}

UpdateFewStep ==
    /\ \E u \in Users, rid \in InputIds, data \in FewPatches :
          update_reminder(u, rid, data)
    /\ UNCHANGED <<prev, procs>>

GetStep ==
    /\ \E u \in Users, rid \in InputIds : get_reminder_by_id(u, rid)
    /\ UNCHANGED <<prev, procs>>

\* The provider answers about the tasks it was sent and about an id it was not.
RankStep ==
    /\ \E u \in Users, debug \in BOOLEAN :
          \E response \in Responses(
                  {t.id : t \in Range(list_uncompleted_reminders(reminders, u))}
                      \cup {UnknownId}, 1) :
              rank_reminders(u, response, debug)
    /\ UNCHANGED <<prev, procs>>

Next ==
    \/ CreateStep
    \/ DeleteStep
    \/ ToggleStep
    \/ ListStep
    \/ RankStep
    \/ Respond

Spec == Init /\ [][Next]_vars

\* The batch operations alone, on the stores create builds.
NextBatch ==
    \/ CreateStep
    \/ DeleteStep
    \/ ToggleStep
    \/ Respond

SpecBatch == Init /\ [][NextBatch]_vars

\* A client that repeats a call: after a complete call (completed = true) was
\* answered it sends the same request again, with no other request between
\* the two.  prev keeps the first call, its answer and the store it left.
RespondRemember ==
    /\ resp.op = "toggle"
    /\ resp.completed
    /\ resp.error = "none"
    /\ prev.op = "idle"
    /\ prev' = [op |-> "toggle", user |-> resp.user, data |-> resp.data,
                found |-> resp.found, store |-> reminders]
    /\ resp' = Idle
    /\ before' = <<>>
    /\ UNCHANGED <<reminders, inserted, clock, procs>>

ToggleAgain ==
    /\ prev.op = "toggle"
    /\ toggle_reminder_completion(prev.user, prev.data, TRUE)
    /\ UNCHANGED <<prev, procs>>

RespondAgain ==
    /\ prev.op = "toggle"
    /\ resp.op = "toggle"
    /\ resp' = Idle
    /\ before' = <<>>
    /\ prev' = Idle
    /\ UNCHANGED <<reminders, inserted, clock, procs>>

FirstCall ==
    /\ prev.op = "idle"
    /\ (CreateStep \/ ToggleStep \/ Respond)

NextTwice ==
    \/ FirstCall
    \/ RespondRemember
    \/ ToggleAgain
    \/ RespondAgain

SpecTwice == Init /\ [][NextTwice]_vars

\* Every operation that takes an owner, with batches below the cap and few
\* patches.
NextOwner ==
    \/ CreateStep
    \/ GetStep
    \/ ListStep
    \/ UpdateFewStep
    \/ DeleteShortStep
    \/ ToggleShortStep
    \/ RankStep
    \/ Respond

SpecOwner == Init /\ [][NextOwner]_vars

\* Create, read and update of single reminders.
NextUpdate ==
    \/ CreateStep
    \/ UpdateStep
    \/ GetStep
    \/ Respond

SpecUpdate == Init /\ [][NextUpdate]_vars

----------------------------------------------------------------------------
\* rank_tasks as a function: the task lists and the provider responses are
\* drawn in the initial state and one step applies rank_tasks to them.

TaskIds == {"aa", "bb"}

\* An uncompleted reminder as list_uncompleted_reminders returns it; "bb" was
\* ranked before.
TaskOf(id) ==
    LET r == AsReminder(NewReminder("u1",
                 [title |-> [k |-> "str", v |-> <<"a">>],
                  priority |-> IF id = "aa" THEN "low" ELSE Null], id, 1))
    IN IF id = "bb" THEN [r EXCEPT !.rank = Num(9), !.ai_priority = Null] ELSE r

\* A stored reminder of this user; "bb" was ranked before.
TaskDoc(id, user_id) ==
    LET d == NewReminder(user_id,
                 [title |-> [k |-> "str", v |-> <<"a">>],
                  priority |-> IF id = "aa" THEN "low" ELSE Null], id, 1)
    IN IF id = "bb" THEN [d EXCEPT !.rank = Num(9), !.ai_priority = Null] ELSE d

\* The lists of tasks with distinct ids.
TaskLists ==
    {[i \in DOMAIN ids |-> TaskOf(ids[i])] :
        ids \in {s \in SeqsUpTo(TaskIds, Cardinality(TaskIds)) :
                    \A i, j \in DOMAIN s : i # j => s[i] # s[j]}}

InitRankTasks ==
    /\ reminders = <<>>
    /\ inserted = 0
    /\ clock = 0
    /\ before = <<>>
    /\ prev = Idle
    /\ procs = [p \in Procs |-> IdleProc]
    /\ \E tasks \in TaskLists, debug \in BOOLEAN,
          response \in Responses(TaskIds \cup {UnknownId}, MaxItems) :
            resp = [op |-> "rank_tasks_call", tasks |-> tasks, response |-> response,
                    debug |-> debug, raised |-> FALSE, out |-> <<>>]

RankTasksStep ==
    /\ resp.op = "rank_tasks_call"
    /\ LET r == rank_tasks(resp.tasks, resp.response, resp.debug)
       IN resp' = [resp EXCEPT !.op = "rank_tasks", !.raised = r.raised, !.out = r.out]
    /\ UNCHANGED <<reminders, inserted, clock, before, prev, procs>>

SpecRankTasks == InitRankTasks /\ [][RankTasksStep]_vars

----------------------------------------------------------------------------
\* save_ranking_results as a function: the store, the ranked list and the
\* positions on which the store raises are drawn in the initial state and one
\* step applies save_ranking_results for the owner "u1".

\* The stores: "aa" of the caller, not ranked; "bb" of the caller and ranked
\* before, or of another user.
SaveStores ==
    {<<TaskDoc("aa", "u1")>>,
     <<TaskDoc("aa", "u1"), TaskDoc("bb", "u1")>>,
     <<TaskDoc("aa", "u1"), TaskDoc("bb", "u2")>>}

\* The items of a ranked list: the id missing, of a stored reminder, or not
\* an ObjectId; the rank None, 0.0 or 0.9.
SaveItems ==
    {[id |-> i, rank |-> r, ai_priority |-> IF r = Num(9) THEN "high" ELSE Absent] :
        i \in {Absent, "aa", "bb", "zz"}, r \in {NullRank, Num(0), Num(9)}}

InitSave ==
    /\ reminders \in SaveStores
    /\ inserted = Len(reminders)
    /\ clock = 1
    /\ before = <<>>
    /\ prev = Idle
    /\ procs = [p \in Procs |-> IdleProc]
    /\ \E ranked \in SeqsUpTo(SaveItems, MaxItems) :
          \E failing \in SUBSET DOMAIN ranked :
              resp = [op |-> "save_call", user |-> "u1", ranked |-> ranked,
                      failing |-> failing, raised |-> FALSE, updated |-> 0,
                      errors |-> <<>>]

SaveStep ==
    /\ resp.op = "save_call"
    /\ LET r == save_ranking_results(reminders, resp.user, resp.ranked,
                                     clock + 1, resp.failing)
       IN /\ resp' = [resp EXCEPT !.op = "save", !.raised = r.raised,
                                  !.updated = r.updated, !.errors = r.errors]
          /\ reminders' = r.coll
          /\ clock' = IF r.raised THEN clock ELSE clock + 1
    /\ before' = reminders
    /\ UNCHANGED <<inserted, prev, procs>>

SpecSave == InitSave /\ [][SaveStep]_vars

----------------------------------------------------------------------------
\* Requests that are not served in one step.  The store calls of a request
\* are its steps; between two of them the steps of another request can take
\* place.  procs[p] is the state of request p: pc tells how far it got.

AllIdle == \A p \in Procs : procs[p].pc = "idle"

\* The batches of the concurrent calls: one or two ids, in both spellings,
\* with an id that is no ObjectId.
ConcurrentInputs == {<<>>, <<"aa">>, <<"aa", "bb">>, <<"AA", "zz">>}

\* delete_reminders / toggle_reminder_completion up to and including the
\* find: the test for an empty input, the cap, the parse of the ids, the lookup.
\* seen is the store the lookup ran on.
BatchFind(p, op, user_id, data, completed) ==
    /\ procs[p].pc = "idle"
    /\ procs' = [procs EXCEPT ![p] =
          IF data = <<>>
          THEN [pc |-> "done", kind |-> "batch", seen |-> reminders,
                existing |-> <<>>, hit |-> {}, after |-> reminders,
                result |-> BatchError(op, user_id, data, completed)]
          ELSE [pc |-> "found", kind |-> "batch", seen |-> reminders,
                existing |-> Existing(reminders, user_id, ValidIds(Processed(data))),
                hit |-> {}, after |-> <<>>,
                result |-> BatchResult(op, user_id, data, completed, <<>>)]]
    /\ UNCHANGED <<reminders, inserted, clock, before, resp, prev>>

\* The bulk write and the return.  hit holds the ids of the documents the
\* bulk write matched, after is the store it left.
BatchWrite(p) ==
    /\ procs[p].pc = "found"
    /\ procs[p].kind = "batch"
    /\ LET call == procs[p].result
           existing == procs[p].existing
           ids == {d._id : d \in Range(existing)}
           matched == {d._id : d \in Range(reminders)} \cap ids
           done(coll) ==
               [procs EXCEPT ![p] =
                   [@ EXCEPT !.pc = "done", !.hit = matched, !.after = coll,
                             !.result = BatchResult(call.op, call.user, call.data,
                                            call.completed, FoundIds(existing))]]
       IN IF call.op = "delete"
          THEN /\ reminders' = DeleteMany(reminders, ids)
               /\ procs' = done(DeleteMany(reminders, ids))
               /\ UNCHANGED clock
          ELSE IF existing # <<>>
          THEN /\ clock < MaxClock
               /\ clock' = clock + 1
               /\ reminders' = UpdateMany(reminders, ids, call.completed, clock + 1)
               /\ procs' = done(UpdateMany(reminders, ids, call.completed, clock + 1))
          ELSE /\ procs' = done(reminders)
               /\ UNCHANGED <<reminders, clock>>
    /\ UNCHANGED <<inserted, before, resp, prev>>

\* The store is filled while no request is being served in steps.
FillStore ==
    /\ AllIdle
    /\ (CreateStep \/ Respond)

DeleteFind ==
    \E p \in Procs, u \in Users, data \in ConcurrentInputs :
        BatchFind(p, "delete", u, data, FALSE)

ToggleFind ==
    \E p \in Procs, u \in Users, data \in ConcurrentInputs, c \in BOOLEAN :
        BatchFind(p, "toggle", u, data, c)

BulkWrite == \E p \in Procs : BatchWrite(p)

\* Two batch calls served at the same time, on the stores create builds.
NextConcurrent ==
    \/ FillStore
    \/ DeleteFind
    \/ ToggleFind
    \/ BulkWrite

SpecConcurrent == Init /\ [][NextConcurrent]_vars

----------------------------------------------------------------------------
\* POST /rank served in steps: the fetch of the uncompleted reminders, the
\* call of the provider, the updates of the store.  events lists what the
\* request has done so far: "fetch" for the find, "provider" for the call of
\* the chat completion, "write" for each update_one.

\* A handler without the short-circuit.
NoTasksNever(uncompleted_reminders) == FALSE

\* if not uncompleted_reminders
NoTasks(uncompleted_reminders) == uncompleted_reminders = <<>>

\* The number of update_one calls save_ranking_results issues for a list.
UpdatesIssued(ranked_reminders) ==
    Cardinality({i \in DOMAIN ranked_reminders :
                    /\ ranked_reminders[i].id # Absent
                    /\ ranked_reminders[i].rank.k = "num"
                    /\ IsObjectId(ranked_reminders[i].id)})

RankFetch(p, user_id, debug) ==
    /\ AllIdle
    /\ LET uncompleted_reminders == list_uncompleted_reminders(reminders, user_id)
           request == [kind |-> "rank", user |-> user_id, debug |-> debug,
                       tasks |-> uncompleted_reminders, events |-> <<"fetch">>,
                       out |-> <<>>, status |-> 200, count |-> 0, saved |-> 0]
       IN procs' = [procs EXCEPT ![p] =
              IF NoTasks(uncompleted_reminders)
              THEN [pc |-> "done"] @@ request
              ELSE [pc |-> "fetched"] @@ request]
    /\ UNCHANGED <<reminders, inserted, clock, before, resp, prev>>

\* ai_client.rank_tasks: the provider is called unless the list is empty.
RankCall(p, response) ==
    /\ procs[p].pc = "fetched"
    /\ LET ranked == rank_tasks(procs[p].tasks, response, procs[p].debug)
       IN procs' = [procs EXCEPT ![p] =
              [@ EXCEPT !.pc = "ranked",
                        !.out = ranked.out,
                        !.events = IF procs[p].tasks = <<>> THEN @
                                   ELSE Append(@, "provider")]]
    /\ UNCHANGED <<reminders, inserted, clock, before, resp, prev>>

\* save_ranking_results and the answer; the ValueError for an empty list is
\* caught by the handler and answered with 500.
RankSave(p) ==
    /\ procs[p].pc = "ranked"
    /\ LET out == procs[p].out
           save_result == save_ranking_results(reminders, procs[p].user, out,
                                               clock + 1, {})
       IN IF save_result.raised
          THEN /\ procs' = [procs EXCEPT ![p] = [@ EXCEPT !.pc = "done", !.status = 500]]
               /\ UNCHANGED <<reminders, clock>>
          ELSE /\ clock < MaxClock
               /\ clock' = clock + 1
               /\ reminders' = save_result.coll
               /\ procs' = [procs EXCEPT ![p] =
                      [@ EXCEPT !.pc = "done",
                                !.count = Len(out),
                                !.saved = save_result.updated,
                                !.events = @ \o [i \in 1..UpdatesIssued(out) |-> "write"]]]
    /\ UNCHANGED <<inserted, before, resp, prev>>

\* Reminders are created and completed while no request is served in steps.
PrepareStore ==
    /\ AllIdle
    /\ (CreateStep \/ ToggleShortStep \/ Respond)

\* The request arrives when the one before it has been answered.
RankFetchStep ==
    /\ resp.op = "idle"
    /\ \E p \in Procs, u \in Users, debug \in BOOLEAN : RankFetch(p, u, debug)

RankCallStep ==
    \E p \in Procs :
        /\ procs[p].pc = "fetched"
        /\ \E response \in Responses(
                  {t.id : t \in Range(procs[p].tasks)} \cup {UnknownId}, 1) :
              RankCall(p, response)

RankSaveStep == \E p \in Procs : RankSave(p)

\* The answer is handed to the client.
RankReturn ==
    /\ \E p \in Procs :
          /\ procs[p].pc = "done"
          /\ procs' = [procs EXCEPT ![p] = IdleProc]
    /\ UNCHANGED <<reminders, inserted, clock, before, resp, prev>>

\* One /rank request at a time, served in steps.
NextRankSteps ==
    \/ PrepareStore
    \/ RankFetchStep
    \/ RankCallStep
    \/ RankSaveStep
    \/ RankReturn

SpecRankSteps == Init /\ [][NextRankSteps]_vars

\* Create, toggle with batches below the cap, and /rank.
NextRank ==
    \/ CreateStep
    \/ ToggleShortStep
    \/ RankStep
    \/ Respond

SpecRank == Init /\ [][NextRank]_vars

----------------------------------------------------------------------------
\* The properties.

IsBatch == resp.op \in {"delete", "toggle"} /\ resp.error = "none"

Min(a, b) == IF a < b THEN a ELSE b

\* The positions of data within the cap, and beyond it, that hold the id oid.
HeadPositions(data, oid) ==
    {i \in 1..Min(Cap, Len(data)) : IsObjectId(data[i]) /\ ObjectId(data[i]) = oid}
TailPositions(data, oid) ==
    {i \in (Cap + 1)..Len(data) : IsObjectId(data[i]) /\ ObjectId(data[i]) = oid}

\* C1: in the answer of a batch delete or toggle, every id string among the
\* first 10 of the input is in exactly one of the lists deleted/updated and
\* not_found, as many times as it occurs among the first 10.
C1_OncePerOccurrence ==
    IsBatch =>
        LET ids == SubSeq(resp.data, 1, Min(Cap, Len(resp.data)))
        IN \A i \in DOMAIN ids :
            /\ (ids[i] \in Range(resp.found)) # (ids[i] \in Range(resp.not_found))
            /\ Count(resp.found, ids[i]) + Count(resp.not_found, ids[i])
                 = Count(ids, ids[i])

\* C2: in the answer of a batch delete or toggle, the lengths of
\* deleted/updated, not_found and ignored add up to the length of the input.
C2_LengthsAddUp ==
    IsBatch =>
        Len(resp.found) + Len(resp.not_found) + Len(resp.ignored) = Len(resp.data)

DeleteTargets ==
    {d \in Range(before) : d.user_id = resp.user /\ HeadPositions(resp.data, d._id) # {}}

\* C4: a batch delete removes exactly the caller's reminders whose id is among
\* the first 10 input ids, deleted lists exactly their ids, and every other
\* reminder stays in the store unchanged, in its place.
C4_DeletesExactlyOwned ==
    (resp.op = "delete" /\ resp.error = "none") =>
        /\ reminders = SelectList(before, Range(before) \ DeleteTargets)
        /\ Range(resp.found) = {d._id : d \in DeleteTargets}
        /\ Len(resp.found) = Cardinality(DeleteTargets)

\* A delete that removed a reminder while the first 10 ids also named a
\* reminder of another user.
C4_Witness ==
    /\ resp.op = "delete"
    /\ resp.error = "none"
    /\ DeleteTargets # {}
    /\ \E d \in Range(before) : d.user_id # resp.user /\ HeadPositions(resp.data, d._id) # {}

\* C5: after /rank, for every returned item the stored reminder of the caller
\* with that id has the item's rank and, as priority tier, the item's priority.
C5_RankAndTierStored ==
    (resp.op = "rank" /\ resp.status = 200) =>
        \A i \in DOMAIN resp.reminders : \A d \in Range(reminders) :
            (d._id = resp.reminders[i].id /\ d.user_id = resp.user)
                => /\ d.rank = resp.reminders[i].rank
                   /\ d.ai_priority = resp.reminders[i].priority

\* C6: for a non-empty list of tasks with distinct ids and any provider
\* response, rank_tasks returns exactly one entry per task id and the entries
\* are in descending order of rank.
C6_OnePerTaskSorted ==
    (resp.op = "rank_tasks" /\ resp.tasks # <<>>) =>
        /\ ~resp.raised
        /\ Len(resp.out) = Len(resp.tasks)
        /\ \A i \in DOMAIN resp.tasks :
              Cardinality({j \in DOMAIN resp.out : resp.out[j].id = resp.tasks[i].id}) = 1
        /\ \A i, j \in DOMAIN resp.out :
              i < j => /\ resp.out[i].rank.k = "num"
                       /\ resp.out[j].rank.k = "num"
                       /\ resp.out[i].rank.v >= resp.out[j].rank.v

\* The provider named one task twice (the later item counts), and the output
\* is in another order than the input.
C6_Witness ==
    /\ resp.op = "rank_tasks"
    /\ Len(resp.tasks) = 2
    /\ resp.response.kind = "object"
    /\ Len(resp.response.items) = 2
    /\ resp.response.items[1].id = resp.response.items[2].id
    /\ resp.out[1].id = resp.tasks[2].id
    /\ resp.out[1].rank.v > resp.out[2].rank.v

\* C7: when the provider call raises or its content is empty or unparseable,
\* /rank answers 200 with one entry per uncompleted reminder, in their order,
\* each with rank 0.5 and priority "medium".
C7_FallbackOnFailure ==
    (resp.op = "rank" /\ resp.called /\ resp.response.kind \in FailKinds) =>
        /\ resp.status = 200
        /\ Len(resp.reminders) = Len(resp.tasks)
        /\ \A i \in DOMAIN resp.tasks :
              /\ resp.reminders[i].id = resp.tasks[i].id
              /\ resp.reminders[i].rank = Num(DefaultRank)
              /\ resp.reminders[i].priority = "medium"

\* The provider failed on a reminder that carried another rank from an
\* earlier ranking.
C7_Witness ==
    /\ resp.op = "rank"
    /\ resp.called
    /\ resp.response.kind \in FailKinds
    /\ \E i \in DOMAIN resp.tasks :
          resp.tasks[i].rank.k = "num" /\ resp.tasks[i].rank.v # DefaultRank

\* C8: a provider response that is the raw array of items gives every task the
\* same rank and priority as the object wrapping the same items gives it.
C8_ArrayLikeObject ==
    (resp.op = "rank_tasks" /\ resp.response.kind = "array") =>
        LET wrapped == rank_tasks(resp.tasks,
                                  [kind |-> "object", items |-> resp.response.items],
                                  resp.debug).out
        IN \A i \in DOMAIN resp.out : \A j \in DOMAIN wrapped :
              resp.out[i].id = wrapped[j].id
                  => /\ resp.out[i].rank = wrapped[j].rank
                     /\ resp.out[i].priority = wrapped[j].priority

\* C9: the rank of every stored reminder that has one is in [0.0, 1.0].
C9_StoredRankInUnitInterval ==
    \A d \in Range(reminders) : d.rank.k = "num" => (0 <= d.rank.v /\ d.rank.v <= 10)

\* The place of the reminder with this id in the store.
StorePlace(id) == CHOOSE i \in DOMAIN before : before[i]._id = id

\* C10: list returns the owner's reminders, the uncompleted before the
\* completed; within one completion status the ranked before the unranked and
\* in descending order of rank; reminders with equal keys in store order.
C10_ListOrder ==
    resp.op = "list" =>
        LET L == resp.reminders
        IN /\ {r.id : r \in Range(L)} = {d._id : d \in {x \in Range(before) : x.user_id = resp.user}}
           /\ \A i, j \in DOMAIN L : i < j =>
                /\ ~(L[i].completed /\ ~L[j].completed)
                /\ L[i].completed = L[j].completed =>
                     /\ ~(L[i].rank.k = "abs" /\ L[j].rank.k = "num")
                     /\ (L[i].rank.k = "num" /\ L[j].rank.k = "num")
                            => L[i].rank.v >= L[j].rank.v
                     /\ L[i].rank = L[j].rank => StorePlace(L[i].id) < StorePlace(L[j].id)


----------------------------------------------------------------------------
\* A title that is null or has no character other than whitespace.
BlankTitle(title) ==
    title.k # "str" \/ \A i \in DOMAIN title.v : title.v[i] = " "

\* C13: create fails with a validation error (ValueError, status 400) and
\* persists no record whenever the title is absent, null, empty or
\* whitespace-only; on success the store gained one record, which has
\* completed = false and created_at = updated_at.
C13_CreateValidates ==
    resp.op = "create" =>
        IF BlankTitle(resp.data.title)
        THEN resp.error = "ValueError" /\ resp.status = 400 /\ reminders = before
        ELSE /\ resp.error = "none"
             /\ Len(reminders) = Len(before) + 1
             /\ SubSeq(reminders, 1, Len(before)) = before
             /\ ~reminders[Len(reminders)].completed
             /\ reminders[Len(reminders)].created_at = reminders[Len(reminders)].updated_at

\* C14: every stored reminder has a non-empty title, and an update whose
\* patch carries a blank, whitespace-only or null title fails with a
\* validation error and leaves the store as it was.
C14_TitleNeverEmpty ==
    /\ \A i \in DOMAIN reminders : reminders[i].title # <<>>
    /\ (resp.op = "update" /\ "title" \in DOMAIN resp.data
            /\ BlankTitle(resp.data.title))
        => (resp.error = "ValueError" /\ reminders = before)

\* An update of a reminder the caller owns whose patch has a null title next
\* to a valid field has been answered.
C14_Witness ==
    /\ resp.op = "update"
    /\ resp.data = [title |-> NullTitle, notes |-> "n"]
    /\ IsObjectId(resp.id)
    /\ FindOne(before, ObjectId(resp.id), resp.user) # 0

\* The fields of stored documents that differ between two stores of the same
\* length.
ChangedFields(old, new) ==
    {f \in {"_id", "title", "notes", "url", "date", "time", "priority", "list", "tag",
             "user_id", "completed", "rank", "ai_priority", "created_at", "updated_at"} :
        \E i \in DOMAIN old : old[i][f] # new[i][f]}

\* C15 as stated: a successful update changes only the fields title, notes,
\* url, date, time, priority and list that are present in the patch, plus
\* updated_at.
C15_OnlySpecAllowList ==
    (resp.op = "update" /\ resp.error = "none") =>
        /\ Len(reminders) = Len(before)
        /\ ChangedFields(before, reminders) \subseteq
               ({"title", "notes", "url", "date", "time", "priority", "list"}
                    \cap DOMAIN resp.data) \cup {"updated_at"}

\* C15, amended: a successful update changes only the fields title, notes,
\* url, date, time, priority, list and tag that are present in the patch,
\* plus updated_at, and only in the reminder the call names; owner,
\* completion flag, rank, priority tier and created_at keep their values.
C15_OnlyAllowListed ==
    (resp.op = "update" /\ resp.error = "none") =>
        /\ Len(reminders) = Len(before)
        /\ ChangedFields(before, reminders) \subseteq
               ({"title", "notes", "url", "date", "time", "priority", "list", "tag"}
                    \cap DOMAIN resp.data) \cup {"updated_at"}
        /\ \A i \in DOMAIN before :
               before[i]._id # ObjectId(resp.id) => reminders[i] = before[i]

\* A successful update whose patch carries keys outside the allow-list.
C15_Witness ==
    /\ resp.op = "update"
    /\ resp.error = "none"
    /\ {"completed", "user_id"} \subseteq DOMAIN resp.data
    /\ before[FindOne(before, ObjectId(resp.id), resp.user)].user_id # resp.data.user_id


\* C11: when complete (completed = true) is called twice in a row with the
\* same owner and the same ids, every reminder has after the second call the
\* completion flag it had after the first, and the second call's updated
\* list is the first call's.
C11_ToggleTwice ==
    (prev.op = "toggle" /\ resp.op = "toggle") =>
        /\ resp.found = prev.found
        /\ Len(reminders) = Len(prev.store)
        /\ \A i \in DOMAIN reminders :
               /\ reminders[i]._id = prev.store[i]._id
               /\ reminders[i].completed = prev.store[i].completed

\* The repeated call has been answered; it named a reminder of the caller
\* and an id that is none.
C11_Witness ==
    /\ prev.op = "toggle"
    /\ resp.op = "toggle"
    /\ resp.found # <<>>
    /\ resp.not_found # <<>>
    /\ \E i \in DOMAIN reminders :
           reminders[i]._id \in Range(resp.found) /\ reminders[i].updated_at = clock

\* The stored reminder with this id belongs to this user.
Owns(coll, user_id, id) ==
    \E d \in Range(coll) : d._id = id /\ d.user_id = user_id

C16_OriginalFieldsKept ==
    resp.op = "rank_tasks" =>
        \A i \in DOMAIN resp.out : \A j \in DOMAIN resp.tasks :
            resp.out[i].id = resp.tasks[j].id =>
                \A f \in {"title", "notes", "url", "date", "time", "priority", "list",
                           "tag", "user_id", "completed", "created_at", "updated_at"} :
                    resp.out[i][f] = resp.tasks[j][f]

\* The item at position i of the ranked list has an id and a number as rank.
NotSkipped(i) ==
    resp.ranked[i].id # Absent /\ resp.ranked[i].rank.k = "num"

\* It has an id that is no ObjectId, or the store raised on it.
Errored(i) ==
    NotSkipped(i) /\ (~IsObjectId(resp.ranked[i].id) \/ i \in resp.failing)

\* Its update reached the store and matched a reminder of the caller.
Applied(i) ==
    /\ NotSkipped(i)
    /\ ~Errored(i)
    /\ Owns(before, resp.user, ObjectId(resp.ranked[i].id))

\* j is the last applied item before i for the same reminder.
LastBefore(j, i) ==
    /\ j < i
    /\ Applied(j)
    /\ ObjectId(resp.ranked[j].id) = ObjectId(resp.ranked[i].id)
    /\ \A k \in DOMAIN resp.ranked :
           (j < k /\ k < i /\ Applied(k))
               => ObjectId(resp.ranked[k].id) # ObjectId(resp.ranked[i].id)

\* Its update changed the stored reminder: it is the first for that reminder
\* in this call, or it carries other values than the one before it.
Modified(i) ==
    /\ Applied(i)
    /\ \A j \in DOMAIN resp.ranked :
           LastBefore(j, i) =>
               \/ resp.ranked[j].rank # resp.ranked[i].rank
               \/ resp.ranked[j].ai_priority # resp.ranked[i].ai_priority

\* C19: save_ranking_results goes through every item of a non-empty list.  An
\* item without an id or with no number as rank leaves no trace; an item whose
\* id cannot be parsed or on which the store raises is listed in errors under
\* its id, in the order of the list; the items after it are still written
\* (the last applied item for a reminder of the caller decides its stored
\* rank, reminders no applied item names are untouched); and updated is the
\* number of items whose update changed a reminder of the caller.
C19_EveryItemProcessed ==
    (resp.op = "save" /\ resp.ranked # <<>>) =>
        LET items == resp.ranked
            positions == [i \in DOMAIN items |-> i]
            errored == SelectList(positions, {i \in DOMAIN items : Errored(i)})
        IN /\ ~resp.raised
           /\ resp.errors = [k \in DOMAIN errored |-> items[errored[k]].id]
           /\ resp.updated = Cardinality({i \in DOMAIN items : Modified(i)})
           /\ Len(reminders) = Len(before)
           /\ \A n \in DOMAIN before :
                  LET hits == {i \in DOMAIN items :
                                  /\ Applied(i)
                                  /\ ObjectId(items[i].id) = before[n]._id
                                  /\ before[n].user_id = resp.user}
                  IN IF hits = {} THEN reminders[n] = before[n]
                     ELSE LET last == CHOOSE i \in hits : \A j \in hits : j <= i
                          IN /\ reminders[n].rank = items[last].rank
                             /\ reminders[n].updated_at = clock
                             /\ reminders[n]._id = before[n]._id

\* A list whose first item fails in the store and whose second item, for
\* another reminder of the caller, was written.
C19_Witness ==
    /\ resp.op = "save"
    /\ Len(resp.ranked) >= 2
    /\ Errored(1)
    /\ 1 \in resp.failing
    /\ Modified(2)
    /\ resp.ranked[1].id # resp.ranked[2].id

\* C20: after a /rank call in which the provider failed, every uncompleted
\* reminder of the owner has the stored rank 0.5, whatever rank it had.
C20_FallbackPersisted ==
    (resp.op = "rank" /\ resp.called /\ resp.response.kind \in FailKinds) =>
        /\ resp.status = 200
        /\ \A d \in Range(reminders) :
               (d.user_id = resp.user /\ ~d.completed) => d.rank = Num(DefaultRank)

\* The provider failed on a reminder that had another rank stored.
C20_Witness ==
    /\ resp.op = "rank"
    /\ resp.called
    /\ resp.response.kind \in FailKinds
    /\ \E d \in Range(before) :
           /\ d.user_id = resp.user
           /\ ~d.completed
           /\ d.rank.k = "num"
           /\ d.rank # Num(DefaultRank)

\* Request p is a batch call that has returned its three lists.
BatchDone(p) ==
    /\ procs[p].pc = "done"
    /\ procs[p].kind = "batch"
    /\ procs[p].result.error = "none"

\* C17 as stated: every id a call reports in deleted or updated was removed,
\* or had its flag set, by the bulk write of that same call; no reminder is
\* reported as deleted by both calls.
C17_OwnWriteDidIt ==
    /\ \A p \in Procs :
           BatchDone(p) => Range(procs[p].result.found) \subseteq procs[p].hit
    /\ \A p, q \in Procs :
           (p # q /\ BatchDone(p) /\ BatchDone(q)
                /\ procs[p].result.op = "delete" /\ procs[q].result.op = "delete")
               => Range(procs[p].result.found) \cap Range(procs[q].result.found) = {}

\* C17, amended: every id a call reports in deleted or updated named a
\* reminder of the caller in the store its own query ran on; a reminder it
\* reports as deleted is not in the store once the call has returned; a
\* reminder it reports as updated and that its bulk update still found in the
\* store has the flag of that call in the store the update left.
C17_ReportsWhatItFound ==
    \A p \in Procs :
        BatchDone(p) =>
            LET call == procs[p].result
            IN /\ \A id \in Range(call.found) :
                      /\ Owns(procs[p].seen, call.user, id)
                      /\ \E rid \in Range(Processed(call.data)) :
                             IsObjectId(rid) /\ ObjectId(rid) = id
               /\ call.op = "delete" =>
                      \A id \in Range(call.found) :
                          \A d \in Range(reminders) : d._id # id
               /\ call.op = "toggle" =>
                      \A id \in Range(call.found) :
                          \A d \in Range(procs[p].after) :
                              d._id = id => d.completed = call.completed

\* Both calls have returned; one of them reports a reminder as deleted that
\* the other call had removed before.
C17_Witness ==
    \E p, q \in Procs :
        /\ p # q
        /\ BatchDone(p)
        /\ BatchDone(q)
        /\ procs[p].result.op = "delete"
        /\ \E id \in Range(procs[p].result.found) :
               id \notin procs[p].hit /\ id \in procs[q].hit

\* Request p is a /rank request that has started.
RankStarted(p) == procs[p].pc # "idle" /\ procs[p].kind = "rank"

\* C18: a /rank request of an owner without uncompleted reminders answers
\* 200 with an empty list, having done nothing but the fetch: no call of the
\* provider, no write to the store.  Whenever the provider is called, the
\* fetch came before the call and no write of a rank came before it.
C18_FetchCallPersist ==
    \A p \in Procs :
        RankStarted(p) =>
            LET e == procs[p].events
            IN /\ procs[p].tasks = <<>> =>
                      /\ procs[p].pc = "done"
                      /\ e = <<"fetch">>
                      /\ procs[p].status = 200
                      /\ procs[p].out = <<>>
                      /\ procs[p].count = 0
               /\ \A i \in DOMAIN e :
                      e[i] = "provider" =>
                          /\ \E j \in 1..(i - 1) : e[j] = "fetch"
                          /\ \A j \in 1..(i - 1) : e[j] # "write"

\* A request found nothing to rank for an owner who has a reminder, a
\* completed one.
C18_Witness ==
    \E p \in Procs :
        /\ RankStarted(p)
        /\ procs[p].tasks = <<>>
        /\ \E d \in Range(reminders) : d.user_id = procs[p].user /\ d.completed
====
